---------------------------- MODULE Spec2Model ----------------------------
(***************************************************************************)
(* Model of the literal scanners of rustc_lexer (literals.rs): number,     *)
(* lifetime_or_char, single_quoted_string, double_quoted_string and         *)
(* raw_double_quoted_string / raw_string_unvalidated.                       *)
(*                                                                         *)
(* The token text is the sequence chars; pos is the number of characters   *)
(* the cursor has consumed (Cursor::len_consumed).  Every scanner starts    *)
(* with the cursor just past the characters its caller consumed.  Loops of *)
(* the scanners are taken one iteration per step.                          *)
(***************************************************************************)
EXTENDS Integers, Sequences, FiniteSets, TLC

VARIABLES
    chars,                       \* the text of the token being scanned
    pos,                         \* Cursor: number of characters consumed
    pc,                          \* position in the running scanner
    prefix_len,                  \* raw_string_unvalidated: parameter
    start_pos,                   \* raw_string_unvalidated: local
    eaten,                       \* raw_string_unvalidated: local (n_start_hashes)
    max_hashes,                  \* raw_string_unvalidated: local
    possible_terminator_offset,  \* raw_string_unvalidated: local
    unvalidated,                 \* value returned by raw_string_unvalidated
    base,                        \* number: local
    terminated,                  \* value returned by single_/double_quoted_string
    caller,                      \* who called single_quoted_string
    result                       \* value returned by the entry routine

vars == <<chars, pos, pc, prefix_len, start_pos, eaten, max_hashes,
          possible_terminator_offset, unvalidated, base, terminated, caller,
          result>>

---------------------------------------------------------------------------
(* Bounds of the model *)

\* longest text after the raw-string prefix
MaxRawLen == 8
\* longest text after the first digit of a number
MaxNumLen == 4
\* longest text after the opening single quote
MaxQuoteLen == 4
\* longest text after the opening double quote
MaxDqLen == 6
\* stand-in for u16::MAX (65535): the largest hash count u16::try_from accepts
U16_MAX == 2

---------------------------------------------------------------------------
(* Characters *)

EOF_CHAR == "NUL"
HASH == "#"
DQUOTE == "\""
SQUOTE == "'"
BACKSLASH == "\\"
SLASH == "/"
NEWLINE == "\n"

RawAlphabet == {HASH, DQUOTE, "~"}
NumAlphabet == {"0", "1", "8", "b", "o", "x", "e", "E", ".", "_", "+", "-"}

QuoteAlphabet == {SQUOTE, BACKSLASH, SLASH, NEWLINE, "a", "1", " ", EOF_CHAR}
DqAlphabet == {DQUOTE, BACKSLASH, "a"}

CharUniverse ==
    RawAlphabet \cup NumAlphabet \cup QuoteAlphabet \cup DqAlphabet \cup {EOF_CHAR}

\* char::is_digit(10) and the digits of the cursor's digit runs
DecimalDigits == {"0", "1", "8"}
HexadecimalDigits == DecimalDigits \cup {"b", "e", "E"}
\* is_id_start, on the characters of the model
IdStart == {"a", "b", "o", "x", "e", "E", "_"}
is_id_start(c) == c \in IdStart
\* is_id_continue, on the characters of the model
IdContinue == IdStart \cup DecimalDigits
is_id_continue(c) == c \in IdContinue

NoneV == [tag |-> "None"]
Some(x) == [tag |-> "Some", val |-> x]

\* all texts over alphabet A of length at most n
Texts(A, n) == UNION {[1..k -> A] : k \in 0..n}

---------------------------------------------------------------------------
(* Cursor *)

nth_char(p, n) == IF p + n + 1 <= Len(chars) THEN chars[p + n + 1] ELSE EOF_CHAR
first(p) == nth_char(p, 0)
second(p) == nth_char(p, 1)
is_eof(p) == p >= Len(chars)
\* Cursor::bump: the character consumed (None at end of input), the new position
bump_char(p) == IF is_eof(p) THEN NoneV ELSE Some(chars[p + 1])
bump(p) == IF is_eof(p) THEN p ELSE p + 1

\* Cursor::eat_while, the predicate given as the set of characters it accepts
RECURSIVE eat_while(_, _)
eat_while(p, accepted) ==
    IF first(p) \in accepted /\ ~is_eof(p)
    THEN eat_while(bump(p), accepted)
    ELSE p

\* the loop of Cursor::eat_decimal_digits / eat_hexadecimal_digits: '_' is
\* consumed, a digit is consumed and sets has_digits, anything else stops
RECURSIVE eat_digits(_, _, _)
eat_digits(p, has_digits, digits) ==
    IF first(p) = "_" THEN eat_digits(bump(p), has_digits, digits)
    ELSE IF first(p) \in digits THEN eat_digits(bump(p), TRUE, digits)
    ELSE [pos |-> p, has_digits |-> has_digits]

eat_decimal_digits(p) == eat_digits(p, FALSE, DecimalDigits)
eat_hexadecimal_digits(p) == eat_digits(p, FALSE, HexadecimalDigits)

\* Cursor::eat_float_exponent: an optional sign, then a decimal digit run
eat_float_exponent(p) ==
    IF first(p) \in {"-", "+"} THEN eat_decimal_digits(bump(p))
    ELSE eat_decimal_digits(p)

\* Cursor::eat_literal_suffix (eat_identifier): an identifier, if one starts here
eat_literal_suffix(p) ==
    IF ~is_id_start(first(p)) THEN p ELSE eat_while(bump(p), IdContinue)

---------------------------------------------------------------------------
(* raw_double_quoted_string / raw_string_unvalidated *)

InvalidStarter(c) == [kind |-> "InvalidStarter", bad_char |-> c]
NoTerminator(e, f, o) ==
    [kind |-> "NoTerminator", expected |-> e, found |-> f,
     possible_terminator_offset |-> o]
TooManyDelimiters(f) == [kind |-> "TooManyDelimiters", found |-> f]

\* the (count, error) pair before the scan has returned one
NotReturned == <<0, NoneV>>

RawInit ==
    /\ \E prefix \in {<<"r">>, <<"b", "r">>} :
       \E body \in Texts(RawAlphabet, MaxRawLen) :
          /\ chars = prefix \o body
          /\ pos = Len(prefix)
          /\ prefix_len = Len(prefix)
          /\ start_pos = Len(prefix)
    /\ pc = "raw_count"
    /\ eaten = 0
    /\ max_hashes = 0
    /\ possible_terminator_offset = NoneV
    /\ unvalidated = NotReturned
    /\ base = "Decimal"
    /\ terminated = FALSE
    /\ caller = "none"
    /\ result = NotReturned

RawFrame == UNCHANGED <<chars, prefix_len, start_pos, base, terminated, caller>>

\* one iteration of `while cursor.first() == '#'`
RawCountHash ==
    /\ pc = "raw_count"
    /\ first(pos) = HASH
    /\ eaten' = eaten + 1
    /\ pos' = bump(pos)
    /\ UNCHANGED <<pc, max_hashes, possible_terminator_offset, unvalidated, result>>
    /\ RawFrame

\* `match cursor.bump()`: the string is started
RawStarted ==
    /\ pc = "raw_count"
    /\ first(pos) # HASH
    /\ bump_char(pos) = Some(DQUOTE)
    /\ pos' = bump(pos)
    /\ pc' = "raw_loop"
    /\ UNCHANGED <<eaten, max_hashes, possible_terminator_offset, unvalidated, result>>
    /\ RawFrame

\* an invalid starter that is looked at but not consumed
RawInvalidStarterPeek ==
    /\ pc = "raw_count"
    /\ first(pos) # HASH
    /\ bump_char(pos) # Some(DQUOTE)
    /\ unvalidated' = <<eaten, Some(InvalidStarter(first(pos)))>>
    /\ pc' = "raw_validate"
    /\ UNCHANGED <<pos, eaten, max_hashes, possible_terminator_offset, result>>
    /\ RawFrame

\* `match cursor.bump()`: anything but '"'
RawInvalidStarter ==
    /\ pc = "raw_count"
    /\ first(pos) # HASH
    /\ bump_char(pos) # Some(DQUOTE)
    /\ LET c == bump_char(pos)
           bad == IF c = NoneV THEN EOF_CHAR ELSE c.val
       IN unvalidated' = <<eaten, Some(InvalidStarter(bad))>>
    /\ pos' = bump(pos)
    /\ pc' = "raw_validate"
    /\ UNCHANGED <<eaten, max_hashes, possible_terminator_offset, result>>
    /\ RawFrame

\* a closing run that takes every '#' it finds
RECURSIVE eat_end_hashes_greedy(_, _, _)
eat_end_hashes_greedy(p, n_end_hashes, n_start_hashes) ==
    IF first(p) = HASH
    THEN eat_end_hashes_greedy(bump(p), n_end_hashes + 1, n_start_hashes)
    ELSE [pos |-> p, n_end_hashes |-> n_end_hashes]

\* the closing run: `while cursor.first() == '#' && n_end_hashes < n_start_hashes`
RECURSIVE eat_end_hashes(_, _, _)
eat_end_hashes(p, n_end_hashes, n_start_hashes) ==
    IF first(p) = HASH /\ n_end_hashes < n_start_hashes
    THEN eat_end_hashes(bump(p), n_end_hashes + 1, n_start_hashes)
    ELSE [pos |-> p, n_end_hashes |-> n_end_hashes]

\* `cursor.len_consumed() - start_pos - n_end_hashes + prefix_len`
terminator_offset_no_prefix(len_consumed, n_end_hashes) ==
    len_consumed - start_pos - n_end_hashes
terminator_offset(len_consumed, n_end_hashes) ==
    len_consumed - start_pos - n_end_hashes + prefix_len

\* one iteration of `loop` that ends at end of input
RawNoTerminator ==
    /\ pc = "raw_loop"
    /\ LET p1 == eat_while(pos, CharUniverse \ {DQUOTE})
       IN /\ is_eof(p1)
          /\ pos' = p1
          /\ unvalidated' =
                <<eaten, Some(NoTerminator(eaten, max_hashes, possible_terminator_offset))>>
    /\ pc' = "raw_validate"
    /\ UNCHANGED <<eaten, max_hashes, possible_terminator_offset, result>>
    /\ RawFrame

\* an iteration that looks for the closing run without eating the '"'
\* an iteration that steps over the character after a closing run too short
RawQuoteSkipsNext ==
    /\ pc = "raw_loop"
    /\ LET p1 == eat_while(pos, CharUniverse \ {DQUOTE})
           e == eat_end_hashes(bump(p1), 0, eaten)
       IN /\ ~is_eof(p1)
          /\ IF e.n_end_hashes = eaten
             THEN /\ unvalidated' = <<eaten, NoneV>>
                  /\ pos' = e.pos
                  /\ pc' = "raw_validate"
                  /\ UNCHANGED <<max_hashes, possible_terminator_offset>>
             ELSE IF e.n_end_hashes > max_hashes
             THEN /\ possible_terminator_offset' =
                        Some(terminator_offset(e.pos, e.n_end_hashes))
                  /\ max_hashes' = e.n_end_hashes
                  /\ pos' = bump(e.pos)
                  /\ UNCHANGED <<pc, unvalidated>>
             ELSE /\ pos' = bump(e.pos)
                  /\ UNCHANGED <<pc, unvalidated, max_hashes, possible_terminator_offset>>
    /\ UNCHANGED <<eaten, result>>
    /\ RawFrame

RawQuoteNotEaten ==
    /\ pc = "raw_loop"
    /\ LET p1 == eat_while(pos, CharUniverse \ {DQUOTE})
           e == eat_end_hashes(p1, 0, eaten)
       IN /\ ~is_eof(p1)
          /\ pos' = e.pos
          /\ IF e.n_end_hashes = eaten
             THEN /\ unvalidated' = <<eaten, NoneV>>
                  /\ pc' = "raw_validate"
                  /\ UNCHANGED <<max_hashes, possible_terminator_offset>>
             ELSE IF e.n_end_hashes > max_hashes
             THEN /\ possible_terminator_offset' =
                        Some(terminator_offset(e.pos, e.n_end_hashes))
                  /\ max_hashes' = e.n_end_hashes
                  /\ UNCHANGED <<pc, unvalidated>>
             ELSE UNCHANGED <<pc, unvalidated, max_hashes, possible_terminator_offset>>
    /\ UNCHANGED <<eaten, result>>
    /\ RawFrame

\* one iteration of `loop` that finds a '"'
RawQuote ==
    /\ pc = "raw_loop"
    /\ LET p1 == eat_while(pos, CharUniverse \ {DQUOTE})
           e == eat_end_hashes(bump(p1), 0, eaten)
       IN /\ ~is_eof(p1)
          /\ pos' = e.pos
          /\ IF e.n_end_hashes = eaten
             THEN /\ unvalidated' = <<eaten, NoneV>>
                  /\ pc' = "raw_validate"
                  /\ UNCHANGED <<max_hashes, possible_terminator_offset>>
             ELSE IF e.n_end_hashes > max_hashes
             THEN /\ possible_terminator_offset' =
                        Some(terminator_offset(e.pos, e.n_end_hashes))
                  /\ max_hashes' = e.n_end_hashes
                  /\ UNCHANGED <<pc, unvalidated>>
             ELSE UNCHANGED <<pc, unvalidated, max_hashes, possible_terminator_offset>>
    /\ UNCHANGED <<eaten, result>>
    /\ RawFrame

\* a narrowing that reports the error the scan found
try_from_keep_err(n_hashes, err) ==
    IF n_hashes <= U16_MAX THEN <<n_hashes, err>> ELSE <<0, err>>

\* `match u16::try_from(n_hashes)`
try_from(n_hashes, err) ==
    IF n_hashes <= U16_MAX
    THEN <<n_hashes, err>>
    ELSE <<0, Some(TooManyDelimiters(n_hashes))>>

\* raw_double_quoted_string: the return of raw_string_unvalidated is narrowed
RawValidate ==
    /\ pc = "raw_validate"
    /\ result' = try_from(unvalidated[1], unvalidated[2])
    /\ pc' = "done"
    /\ UNCHANGED <<pos, eaten, max_hashes, possible_terminator_offset, unvalidated>>
    /\ RawFrame

RawNext ==
    \/ RawCountHash
    \/ RawStarted
    \/ RawInvalidStarter
    \/ RawNoTerminator
    \/ RawQuote
    \/ RawValidate

SpecRaw == RawInit /\ [][RawNext]_vars

---------------------------------------------------------------------------
(* number *)

IntKind(b, e) == [kind |-> "Int", base |-> b, empty_int |-> e]
FloatKind(b, e) == [kind |-> "Float", base |-> b, empty_exponent |-> e]

first_digit == chars[1]

NumInit ==
    /\ \E d \in {"0", "1"} : \E rest \in Texts(NumAlphabet, MaxNumLen) :
          chars = <<d>> \o rest
    /\ pos = 1
    /\ pc = "num_start"
    /\ base = "Decimal"
    /\ prefix_len = 0
    /\ start_pos = 0
    /\ eaten = 0
    /\ max_hashes = 0
    /\ possible_terminator_offset = NoneV
    /\ unvalidated = NoneV
    /\ terminated = FALSE
    /\ caller = "none"
    /\ result = NoneV

NumFrame ==
    UNCHANGED <<chars, prefix_len, start_pos, eaten, max_hashes,
                possible_terminator_offset, unvalidated, terminated, caller>>

\* a prefix arm that goes on to the fraction and the exponent without digits
RadixPrefixGoesOn(letter, new_base, d) ==
    /\ pc = "num_start"
    /\ first_digit = "0"
    /\ first(pos) = letter
    /\ base' = new_base
    /\ pos' = d.pos
    /\ pc' = "num_tail"
    /\ UNCHANGED result
    /\ NumFrame

\* an arm 'b' / 'o' / 'x' of `match cursor.first()`, with the digit run d it
\* eats after the prefix letter, and `if !has_digits { return ... }`
RadixPrefix(letter, new_base, d) ==
    /\ pc = "num_start"
    /\ first_digit = "0"
    /\ first(pos) = letter
    /\ base' = new_base
    /\ pos' = d.pos
    /\ IF ~d.has_digits
       THEN result' = IntKind(new_base, TRUE) /\ pc' = "done"
       ELSE pc' = "num_tail" /\ UNCHANGED result
    /\ NumFrame

\* a binary prefix whose digit run takes hexadecimal digits
NumberBinaryHexDigits ==
    RadixPrefix("b", "Binary", eat_hexadecimal_digits(bump(pos)))

NumberBinary == RadixPrefix("b", "Binary", eat_decimal_digits(bump(pos)))

NumberOctal == RadixPrefix("o", "Octal", eat_decimal_digits(bump(pos)))

\* a hexadecimal prefix whose digit run takes decimal digits only
NumberHexadecimalDecDigits ==
    RadixPrefix("x", "Hexadecimal", eat_decimal_digits(bump(pos)))

NumberHexadecimal ==
    RadixPrefix("x", "Hexadecimal", eat_hexadecimal_digits(bump(pos)))

\* '0'..='9' | '_' | '.' | 'e' | 'E': not a base prefix
NumberNotPrefix ==
    /\ pc = "num_start"
    /\ first_digit = "0"
    /\ first(pos) \in DecimalDigits \cup {"_", ".", "e", "E"}
    /\ pos' = eat_decimal_digits(pos).pos
    /\ pc' = "num_tail"
    /\ UNCHANGED <<base, result>>
    /\ NumFrame

\* `_ => return`: just a 0
NumberJustZero ==
    /\ pc = "num_start"
    /\ first_digit = "0"
    /\ first(pos) \notin {"b", "o", "x"} \cup DecimalDigits \cup {"_", ".", "e", "E"}
    /\ result' = IntKind(base, FALSE)
    /\ pc' = "done"
    /\ UNCHANGED <<pos, base>>
    /\ NumFrame

\* the else branch: no base prefix
NumberNoBase ==
    /\ pc = "num_start"
    /\ first_digit # "0"
    /\ pos' = eat_decimal_digits(pos).pos
    /\ pc' = "num_tail"
    /\ UNCHANGED <<base, result>>
    /\ NumFrame

\* a guard that takes every '.' not followed by '.'
is_fraction_dot_no_id_check(p) ==
    first(p) = "." /\ second(p) # "."

\* `'.' if cursor.second() != '.' && !is_id_start(cursor.second())`
is_fraction_dot(p) ==
    first(p) = "." /\ second(p) # "." /\ ~is_id_start(second(p))

\* a fraction whose exponent result is not negated
fraction_not_negated(p) ==
    IF first(p) \in DecimalDigits
    THEN LET p1 == eat_decimal_digits(p).pos
         IN IF first(p1) \in {"e", "E"}
            THEN LET x == eat_float_exponent(bump(p1))
                 IN [pos |-> x.pos, empty_exponent |-> x.has_digits]
            ELSE [pos |-> p1, empty_exponent |-> FALSE]
    ELSE [pos |-> p, empty_exponent |-> FALSE]

\* what follows the '.': `let mut empty_exponent = false; if ... { ... }`
fraction(p) ==
    IF first(p) \in DecimalDigits
    THEN LET p1 == eat_decimal_digits(p).pos
         IN IF first(p1) \in {"e", "E"}
            THEN LET x == eat_float_exponent(bump(p1))
                 IN [pos |-> x.pos, empty_exponent |-> ~x.has_digits]
            ELSE [pos |-> p1, empty_exponent |-> FALSE]
    ELSE [pos |-> p, empty_exponent |-> FALSE]

NumberFraction ==
    /\ pc = "num_tail"
    /\ is_fraction_dot(pos)
    /\ LET f == fraction(bump(pos))
       IN /\ pos' = f.pos
          /\ result' = FloatKind(base, f.empty_exponent)
    /\ pc' = "done"
    /\ UNCHANGED base
    /\ NumFrame

NumberExponent ==
    /\ pc = "num_tail"
    /\ ~is_fraction_dot(pos)
    /\ first(pos) \in {"e", "E"}
    /\ LET x == eat_float_exponent(bump(pos))
       IN /\ pos' = x.pos
          /\ result' = FloatKind(base, ~x.has_digits)
    /\ pc' = "done"
    /\ UNCHANGED base
    /\ NumFrame

\* an Int that gives back the last character it looked at
NumberIntBacksUp ==
    /\ pc = "num_tail"
    /\ ~is_fraction_dot(pos)
    /\ first(pos) \notin {"e", "E"}
    /\ result' = IntKind(base, FALSE)
    /\ pc' = "done"
    /\ pos' = pos - 1
    /\ UNCHANGED base
    /\ NumFrame

NumberInt ==
    /\ pc = "num_tail"
    /\ ~is_fraction_dot(pos)
    /\ first(pos) \notin {"e", "E"}
    /\ result' = IntKind(base, FALSE)
    /\ pc' = "done"
    /\ UNCHANGED <<pos, base>>
    /\ NumFrame

NumNext ==
    \/ NumberBinary
    \/ NumberOctal
    \/ NumberHexadecimal
    \/ NumberNotPrefix
    \/ NumberJustZero
    \/ NumberNoBase
    \/ NumberFraction
    \/ NumberExponent
    \/ NumberInt

SpecNum == NumInit /\ [][NumNext]_vars

---------------------------------------------------------------------------
(* lifetime_or_char and single_quoted_string *)

CharKind(t) == [kind |-> "Char", terminated |-> t]
Literal(k, s) == [kind |-> "Literal", lit |-> k, suffix_start |-> s]
Lifetime(n) == [kind |-> "Lifetime", starts_with_number |-> n]

\* lifetime_or_char runs on ' rest; single_quoted_string is also entered
\* directly, on b' rest
QuoteInit ==
    /\ \E rest \in Texts(QuoteAlphabet, MaxQuoteLen) :
          \/ chars = <<SQUOTE>> \o rest /\ pos = 1 /\ pc = "loc_start"
                /\ caller = "none" /\ result = NoneV
          \/ chars = <<"b", SQUOTE>> \o rest /\ pos = 2 /\ pc = "sqs_start"
                /\ caller = "top" /\ result = FALSE
    /\ base = "Decimal"
    /\ prefix_len = 0
    /\ start_pos = 0
    /\ eaten = 0
    /\ max_hashes = 0
    /\ possible_terminator_offset = NoneV
    /\ unvalidated = NoneV
    /\ terminated = FALSE

QuoteFrame ==
    UNCHANGED <<chars, prefix_len, start_pos, eaten, max_hashes,
                possible_terminator_offset, unvalidated, base>>

\* a test that takes a leading digit for no lifetime
can_be_a_lifetime_no_digit(p) ==
    IF second(p) = SQUOTE THEN FALSE ELSE is_id_start(first(p))

\* `let can_be_a_lifetime = if cursor.second() == '\'' { false } else { ... }`
can_be_a_lifetime(p) ==
    IF second(p) = SQUOTE THEN FALSE
    ELSE is_id_start(first(p)) \/ first(p) \in DecimalDigits

\* `if !can_be_a_lifetime`: single_quoted_string is called
LocCallSingleQuoted ==
    /\ pc = "loc_start"
    /\ ~can_be_a_lifetime(pos)
    /\ pc' = "sqs_start"
    /\ caller' = "lifetime_or_char"
    /\ UNCHANGED <<pos, terminated, result>>
    /\ QuoteFrame

\* a Char literal whose suffix_start is read after the suffix is eaten
LocCharReturnSuffixEaten ==
    /\ pc = "sqs_ret"
    /\ caller = "lifetime_or_char"
    /\ pos' = IF terminated THEN eat_literal_suffix(pos) ELSE pos
    /\ result' = Literal(CharKind(terminated), pos')
    /\ pc' = "done"
    /\ UNCHANGED <<terminated, caller>>
    /\ QuoteFrame

\* single_quoted_string has returned: the Char literal and its suffix
LocCharReturn ==
    /\ pc = "sqs_ret"
    /\ caller = "lifetime_or_char"
    /\ pos' = IF terminated THEN eat_literal_suffix(pos) ELSE pos
    /\ result' = Literal(CharKind(terminated), pos)
    /\ pc' = "done"
    /\ UNCHANGED <<terminated, caller>>
    /\ QuoteFrame

\* the literal contents are skipped and a closing quote is met
LocCharLiteral ==
    /\ pc = "loc_start"
    /\ can_be_a_lifetime(pos)
    /\ LET p1 == eat_while(bump(pos), IdContinue)
       IN /\ first(p1) = SQUOTE
          /\ pos' = bump(p1)
          /\ result' = Literal(CharKind(TRUE), bump(p1))
    /\ pc' = "done"
    /\ UNCHANGED <<terminated, caller>>
    /\ QuoteFrame

\* the literal contents are skipped and no closing quote is met
LocLifetime ==
    /\ pc = "loc_start"
    /\ can_be_a_lifetime(pos)
    /\ LET starts_with_number == first(pos) \in DecimalDigits
           p1 == eat_while(bump(pos), IdContinue)
       IN /\ first(p1) # SQUOTE
          /\ pos' = p1
          /\ result' = Lifetime(starts_with_number)
    /\ pc' = "done"
    /\ UNCHANGED <<terminated, caller>>
    /\ QuoteFrame

\* `if cursor.second() == '\'' && cursor.first() != '\\'`: a one-symbol literal
SqsOneSymbol ==
    /\ pc = "sqs_start"
    /\ second(pos) = SQUOTE /\ first(pos) # BACKSLASH
    /\ pos' = bump(bump(pos))
    /\ terminated' = TRUE
    /\ pc' = "sqs_ret"
    /\ UNCHANGED <<caller, result>>
    /\ QuoteFrame

\* the literal has more than one symbol: the loop is entered
SqsEnterLoop ==
    /\ pc = "sqs_start"
    /\ ~(second(pos) = SQUOTE /\ first(pos) # BACKSLASH)
    /\ pc' = "sqs_loop"
    /\ UNCHANGED <<pos, terminated, caller, result>>
    /\ QuoteFrame

\* arm '\'': quotes are terminated
SqsQuote ==
    /\ pc = "sqs_loop"
    /\ first(pos) = SQUOTE
    /\ pos' = bump(pos)
    /\ terminated' = TRUE
    /\ pc' = "sqs_ret"
    /\ UNCHANGED <<caller, result>>
    /\ QuoteFrame

\* a break on every newline, whatever follows it
SqsBreakAnyNewline ==
    /\ pc = "sqs_loop"
    /\ \/ first(pos) = SLASH
       \/ first(pos) = NEWLINE
       \/ first(pos) = EOF_CHAR /\ is_eof(pos)
    /\ terminated' = FALSE
    /\ pc' = "sqs_ret"
    /\ UNCHANGED <<pos, caller, result>>
    /\ QuoteFrame

\* arms '/', '\n' if ..., EOF_CHAR if ...: break, the string is not terminated
SqsBreak ==
    /\ pc = "sqs_loop"
    /\ \/ first(pos) = SLASH
       \/ first(pos) = NEWLINE /\ second(pos) # SQUOTE
       \/ first(pos) = EOF_CHAR /\ is_eof(pos)
    /\ terminated' = FALSE
    /\ pc' = "sqs_ret"
    /\ UNCHANGED <<pos, caller, result>>
    /\ QuoteFrame

\* an arm '\\' that skips the backslash alone
SqsEscapeOnce ==
    /\ pc = "sqs_loop"
    /\ first(pos) = BACKSLASH
    /\ pos' = bump(pos)
    /\ UNCHANGED <<pc, terminated, caller, result>>
    /\ QuoteFrame

\* arm '\\': the escaped character is skipped with the backslash
SqsEscape ==
    /\ pc = "sqs_loop"
    /\ first(pos) = BACKSLASH
    /\ pos' = bump(bump(pos))
    /\ UNCHANGED <<pc, terminated, caller, result>>
    /\ QuoteFrame

\* arm _: the character is skipped
SqsSkip ==
    /\ pc = "sqs_loop"
    /\ first(pos) \notin {SQUOTE, SLASH, BACKSLASH}
    /\ ~(first(pos) = NEWLINE /\ second(pos) # SQUOTE)
    /\ ~(first(pos) = EOF_CHAR /\ is_eof(pos))
    /\ pos' = bump(pos)
    /\ UNCHANGED <<pc, terminated, caller, result>>
    /\ QuoteFrame

\* single_quoted_string returns to a caller that keeps the flag as it is
SqsReturn ==
    /\ pc = "sqs_ret"
    /\ caller = "top"
    /\ result' = terminated
    /\ pc' = "done"
    /\ UNCHANGED <<pos, terminated, caller>>
    /\ QuoteFrame

QuoteNext ==
    \/ LocCallSingleQuoted
    \/ LocCharReturn
    \/ LocCharLiteral
    \/ LocLifetime
    \/ SqsOneSymbol
    \/ SqsEnterLoop
    \/ SqsQuote
    \/ SqsBreak
    \/ SqsEscape
    \/ SqsSkip
    \/ SqsReturn

SpecQuote == QuoteInit /\ [][QuoteNext]_vars

---------------------------------------------------------------------------
(* double_quoted_string *)

DqInit ==
    /\ \E rest \in Texts(DqAlphabet, MaxDqLen) : chars = <<DQUOTE>> \o rest
    /\ pos = 1
    /\ pc = "dqs_loop"
    /\ caller = "none"
    /\ base = "Decimal"
    /\ prefix_len = 0
    /\ start_pos = 0
    /\ eaten = 0
    /\ max_hashes = 0
    /\ possible_terminator_offset = NoneV
    /\ unvalidated = NoneV
    /\ terminated = FALSE
    /\ result = FALSE

DqFrame ==
    UNCHANGED <<chars, prefix_len, start_pos, eaten, max_hashes,
                possible_terminator_offset, unvalidated, base, caller>>

\* a guard that knows the escaped quote only
is_escape_quote_only(c, p) == c = BACKSLASH /\ first(p) = DQUOTE

\* `'\\' if cursor.first() == '\\' || cursor.first() == '"'`, c just consumed
is_escape(c, p) == c = BACKSLASH /\ (first(p) = BACKSLASH \/ first(p) = DQUOTE)

\* `while let Some(c) = cursor.bump()`, arm '"'
DqsQuote ==
    /\ pc = "dqs_loop"
    /\ bump_char(pos) = Some(DQUOTE)
    /\ pos' = bump(pos)
    /\ terminated' = TRUE
    /\ result' = TRUE
    /\ pc' = "done"
    /\ DqFrame

\* arm '\\' if ...: the escaped character is skipped
DqsEscape ==
    /\ pc = "dqs_loop"
    /\ bump_char(pos) # NoneV
    /\ is_escape(bump_char(pos).val, bump(pos))
    /\ pos' = bump(bump(pos))
    /\ UNCHANGED <<pc, terminated, result>>
    /\ DqFrame

\* arm _
DqsOther ==
    /\ pc = "dqs_loop"
    /\ bump_char(pos) # NoneV
    /\ bump_char(pos) # Some(DQUOTE)
    /\ ~is_escape(bump_char(pos).val, bump(pos))
    /\ pos' = bump(pos)
    /\ UNCHANGED <<pc, terminated, result>>
    /\ DqFrame

\* bump gives None: end of file reached
DqsEof ==
    /\ pc = "dqs_loop"
    /\ bump_char(pos) = NoneV
    /\ terminated' = FALSE
    /\ result' = FALSE
    /\ pc' = "done"
    /\ UNCHANGED pos
    /\ DqFrame

DqNext ==
    \/ DqsQuote
    \/ DqsEscape
    \/ DqsOther
    \/ DqsEof

SpecDq == DqInit /\ [][DqNext]_vars

---------------------------------------------------------------------------
(* What a raw string's text says, read off chars without the cursor *)

Min(S) == CHOOSE x \in S : \A y \in S : x <= y
Max(S) == CHOOSE x \in S : \A y \in S : x >= y

\* length of the longest run of characters of S that starts at index i
\* (1-based) of chars
RunLen(i, S) ==
    Max({n \in 0..(Len(chars) + 1 - i) : \A j \in 0..(n - 1) : chars[i + j] \in S}
        \cup {0})
HashRun(i) == RunLen(i, {HASH})

\* the character at index i of chars, EOF_CHAR past the end
CharAt(i) == IF i <= Len(chars) THEN chars[i] ELSE EOF_CHAR

\* the opening hash count and the index of the character after the opening run
OpenHashes == HashRun(prefix_len + 1)
StarterIdx == prefix_len + OpenHashes + 1
HasStarter == StarterIdx <= Len(chars) /\ chars[StarterIdx] = DQUOTE

\* the '"' of the body, and those followed by enough '#' to close the string
BodyQuotes == {q \in (StarterIdx + 1)..Len(chars) : chars[q] = DQUOTE}
Closers == {q \in BodyQuotes : HashRun(q + 1) >= OpenHashes}

\* chars is prefix #^n " body " #^(n+k), the body of b characters without '"'
IsRoundTripText(n, b, k) ==
    /\ Len(chars) = prefix_len + n + 1 + b + 1 + n + k
    /\ \A i \in 1..n : chars[prefix_len + i] = HASH
    /\ chars[prefix_len + n + 1] = DQUOTE
    /\ \A j \in 1..b : chars[prefix_len + n + 1 + j] # DQUOTE
    /\ chars[prefix_len + n + b + 2] = DQUOTE
    /\ \A j \in 1..(n + k) : chars[prefix_len + n + b + 2 + j] = HASH

RawReturned == pc \in {"raw_validate", "done"}

\* C1: on #^n " body " #^n followed by k >= 0 extra '#', the body without '"',
\* the scan returns (n, None) (n representable in 16 bits) and the cursor stops
\* right after the n-th closing '#', leaving the k extra '#' unconsumed.
C1_RawRoundTrip ==
    pc = "done" =>
        \A n, b \in 0..Len(chars) :
            LET k == Len(chars) - (prefix_len + n + 1 + b + 1 + n)
            IN (k >= 0 /\ IsRoundTripText(n, b, k)) =>
                  /\ unvalidated = <<n, NoneV>>
                  /\ pos = Len(chars) - k
                  /\ (n <= U16_MAX => result = <<n, NoneV>>)

C1_Witness ==
    /\ pc = "done"
    /\ \E n, b, k \in 1..Len(chars) : IsRoundTripText(n, b, k) /\ n <= U16_MAX
    /\ result[2] = NoneV

\* C2: when no '"' of the body is followed by at least n '#', the scan returns
\* (n, NoTerminator) at end of input with expected = n, found = the longest run
\* of '#' directly after a '"' of the body, and possible_terminator_offset =
\* prefix_len + the number of characters between the end of the prefix and the
\* first '#' of the earliest run of that length (None when found is 0).
C2_RawMismatch ==
    (RawReturned /\ HasStarter /\ Closers = {}) =>
        LET runs == {HashRun(q + 1) : q \in BodyQuotes}
            found == Max(runs \cup {0})
            best == Min({q \in BodyQuotes : HashRun(q + 1) = found})
            offset == IF found = 0 THEN NoneV
                      ELSE Some(prefix_len + (best - prefix_len))
        IN /\ unvalidated = <<OpenHashes, Some(NoTerminator(OpenHashes, found, offset))>>
           /\ pos = Len(chars)

\* two closing runs of the longest length, the text going on after the second
C2_Witness ==
    /\ RawReturned /\ HasStarter /\ Closers = {}
    /\ unvalidated[2].val.found = 1
    /\ Cardinality({q \in BodyQuotes : HashRun(q + 1) = 1}) = 2
    /\ chars[Len(chars)] # HASH

\* C3: when the character after the opening run of n '#' is not '"', the scan
\* returns (n, InvalidStarter{bad_char}) with bad_char that character (EOF_CHAR
\* at end of input), having consumed the run and that one character only.
C3_RawInvalidStarter ==
    (RawReturned /\ ~HasStarter) =>
        /\ unvalidated =
              <<OpenHashes,
                Some(InvalidStarter(IF StarterIdx <= Len(chars)
                                    THEN chars[StarterIdx] ELSE EOF_CHAR))>>
        /\ pos = IF StarterIdx <= Len(chars) THEN StarterIdx ELSE Len(chars)

\* r#~"~"# : the starter is '~' and the rest stays unconsumed
C3_Witness ==
    /\ RawReturned /\ ~HasStarter
    /\ OpenHashes = 1
    /\ unvalidated[2].val.bad_char = "~"
    /\ pos < Len(chars)

\* where the scan of raw_string_unvalidated ends
RawEnd ==
    IF ~HasStarter THEN (IF StarterIdx <= Len(chars) THEN StarterIdx ELSE Len(chars))
    ELSE IF Closers = {} THEN Len(chars)
    ELSE Min(Closers) + OpenHashes

\* C4: an opening hash count above the 16-bit maximum gives
\* (0, TooManyDelimiters{found = that count}) whatever the scan found, a count
\* within it gives the scan's count and error unchanged, and in both cases the
\* cursor is where the unvalidated scan ends.
C4_TooManyDelimiters ==
    pc = "done" =>
        /\ unvalidated[1] = OpenHashes
        /\ pos = RawEnd
        /\ (OpenHashes > U16_MAX =>
                result = <<0, Some(TooManyDelimiters(OpenHashes))>>)
        /\ (OpenHashes <= U16_MAX => result = unvalidated)

\* too many hashes on a raw string that is closed properly
C4_Witness ==
    /\ pc = "done"
    /\ OpenHashes > U16_MAX
    /\ unvalidated[2] = NoneV
    /\ result[2].val.kind = "TooManyDelimiters"

---------------------------------------------------------------------------
(* What a number's text says, read off chars without the cursor *)

\* a radix prefix, and the digits of the run after it
HasRadix == chars[1] = "0" /\ CharAt(2) \in {"b", "o", "x"}
RadixBase ==
    IF ~HasRadix THEN "Decimal"
    ELSE IF chars[2] = "b" THEN "Binary"
    ELSE IF chars[2] = "o" THEN "Octal" ELSE "Hexadecimal"
MainDigits == IF RadixBase = "Hexadecimal" THEN HexadecimalDigits ELSE DecimalDigits

\* the main digit run: it ends at index MainEnd
MainStart == IF HasRadix THEN 3 ELSE 2
MainEnd == MainStart + RunLen(MainStart, MainDigits \cup {"_"}) - 1
EmptyRadix == HasRadix /\ \A i \in MainStart..MainEnd : chars[i] \notin MainDigits

\* a '.' right after the main run, and whether it belongs to the number
DotReached == ~EmptyRadix /\ CharAt(MainEnd + 1) = "."
DotTaken ==
    DotReached /\ CharAt(MainEnd + 2) # "." /\ CharAt(MainEnd + 2) \notin IdStart

\* the fractional digit run, entered on a decimal digit
FracStart == MainEnd + 2
FracEntered == DotTaken /\ CharAt(FracStart) \in DecimalDigits
FracEnd == FracStart + RunLen(FracStart, DecimalDigits \cup {"_"}) - 1

\* index of the exponent marker, 0 when the number has none
MarkerIdx ==
    IF EmptyRadix THEN 0
    ELSE IF DotTaken
    THEN (IF FracEntered /\ CharAt(FracEnd + 1) \in {"e", "E"} THEN FracEnd + 1 ELSE 0)
    ELSE IF CharAt(MainEnd + 1) \in {"e", "E"} THEN MainEnd + 1 ELSE 0

\* the exponent after the marker: an optional sign, then a digit run
ExpStart == IF CharAt(MarkerIdx + 1) \in {"+", "-"} THEN MarkerIdx + 2 ELSE MarkerIdx + 1
ExpEnd == ExpStart + RunLen(ExpStart, DecimalDigits \cup {"_"}) - 1
ExpHasDigit == \E i \in ExpStart..ExpEnd : chars[i] \in DecimalDigits

NumReturned == pc = "done" /\ result # NoneV

\* C5: when the scan reaches a '.' after the main digit run (not after an empty
\* radix prefix), it consumes the '.' and returns Float iff the character after
\* the '.' is neither '.' nor an identifier start; otherwise it returns
\* Int{empty_int: false} with the cursor on the '.'.
C5_FractionalDot ==
    (NumReturned /\ DotReached) =>
        IF CharAt(MainEnd + 2) # "." /\ CharAt(MainEnd + 2) \notin IdStart
        THEN result.kind = "Float" /\ result.base = RadixBase /\ pos >= MainEnd + 1
        ELSE result = IntKind(RadixBase, FALSE) /\ pos = MainEnd

\* 1.b and the like: the dot before an identifier start stays unconsumed
C5_Witness ==
    /\ NumReturned /\ DotReached
    /\ CharAt(MainEnd + 2) \in IdStart
    /\ result.kind = "Int"
    /\ pos = MainEnd
    /\ MainEnd >= 2

\* C6: on a Float result empty_exponent is true iff an exponent marker was
\* consumed and the exponent after it (optional sign, digit run) has no digit;
\* without a marker it is false, and after a '.' the marker is consumed only
\* when the fractional digit run was entered.
C6_EmptyExponent ==
    (NumReturned /\ result.kind = "Float") =>
        IF MarkerIdx > 0
        THEN /\ result.empty_exponent = ~ExpHasDigit
             /\ pos = ExpEnd
        ELSE /\ result.empty_exponent = FALSE
             /\ DotTaken
             /\ pos = IF FracEntered THEN FracEnd ELSE MainEnd + 1

\* 1.8e+ : a fraction, a marker and a sign, and no exponent digit
C6_Witness ==
    /\ NumReturned /\ result.kind = "Float"
    /\ DotTaken /\ MarkerIdx > 0
    /\ ExpStart = MarkerIdx + 2
    /\ result.empty_exponent

\* C7: the result is Int with empty_int true iff the first digit is 0, the next
\* character is b, o or x, and the digit run right after the prefix has no
\* digit (underscores are not digits).
C7_EmptyInt ==
    NumReturned =>
        /\ (result.kind = "Int" /\ result.empty_int) <=> EmptyRadix
        /\ EmptyRadix => (result = IntKind(RadixBase, TRUE) /\ pos = MainEnd)

\* 0x_ : a prefix followed by underscores only
C7_Witness ==
    /\ NumReturned /\ EmptyRadix
    /\ MainEnd >= MainStart
    /\ result.kind = "Int" /\ result.empty_int

\* the main digit run the scan consumed after a radix prefix
AfterRadixRun ==
    \/ pc = "num_tail" /\ base # "Decimal"
    \/ NumReturned /\ result.kind = "Int" /\ result.empty_int
ConsumedRun == {chars[i] : i \in 3..pos}

\* the digits each radix allows ("8" stands for the digits above 7)
BinaryDigits == {"0", "1"}
OctalDigits == {"0", "1"}
RadixValid(b) ==
    IF b = "Binary" THEN BinaryDigits \cup {"_"}
    ELSE IF b = "Octal" THEN OctalDigits \cup {"_"}
    ELSE HexadecimalDigits \cup {"_"}

\* C8 as stated: after a radix prefix the consumed main digit run holds only
\* characters valid in that radix (0, 1, _ after 0b; 0-7, _ after 0o; hex
\* digits, _ after 0x).
C8_RadixValidRun ==
    AfterRadixRun => ConsumedRun \subseteq RadixValid(base)

\* C8 amended: after 0b and 0o the consumed main digit run holds only decimal
\* digits 0-9 and _; after 0x only hexadecimal digits and _.
C8_DecimalRunAfterPrefix ==
    AfterRadixRun =>
        /\ base = RadixBase
        /\ ConsumedRun \subseteq
              (IF base = "Hexadecimal" THEN HexadecimalDigits ELSE DecimalDigits)
                 \cup {"_"}

\* 0b18 : the 8 is part of the run consumed after the binary prefix
C8_Witness ==
    /\ pc = "num_tail" /\ base = "Binary"
    /\ "8" \in ConsumedRun
    /\ pos = MainEnd

---------------------------------------------------------------------------
(* What a quoted text says, read off chars without the cursor *)

\* lifetime_or_char: index of the character the candidate lifetime ends before
CandidateEnd == 3 + RunLen(3, IdContinue)
LooksLikeLifetime ==
    /\ CharAt(3) # SQUOTE
    /\ CharAt(2) \in IdStart \cup DecimalDigits
LocReturned == pc = "done" /\ caller # "top"

\* C9: lifetime_or_char returns Lifetime exactly when the character two ahead
\* is not a quote, the next one is an identifier start or a decimal digit, and
\* after that character and the identifier-continue run the cursor is not on a
\* quote; starts_with_number tells whether the first character is a digit.
\* Otherwise it returns a Char literal, and Char{terminated: true} with the
\* quote consumed when the run ends on a quote.
C9_QuoteDisambiguation ==
    LocReturned =>
        IF LooksLikeLifetime /\ CharAt(CandidateEnd) # SQUOTE
        THEN /\ result = Lifetime(CharAt(2) \in DecimalDigits)
             /\ pos = CandidateEnd - 1
        ELSE /\ result.kind = "Literal"
             /\ result.lit.kind = "Char"
             /\ (LooksLikeLifetime =>
                    /\ result = Literal(CharKind(TRUE), CandidateEnd)
                    /\ pos = CandidateEnd)

\* '1a : a lifetime that starts with a digit
C9_Witness ==
    /\ LocReturned
    /\ result.kind = "Lifetime"
    /\ result.starts_with_number
    /\ pos >= 3

\* double_quoted_string: the backslashes right before index q, and the quotes
\* that are not the second character of an escape pair
BackslashesBefore(q) ==
    Max({n \in 0..(q - 2) : \A j \in 1..n : chars[q - j] = BACKSLASH} \cup {0})
BareQuotes ==
    {q \in 2..Len(chars) : chars[q] = DQUOTE /\ BackslashesBefore(q) % 2 = 0}

\* C10: double_quoted_string returns true with the cursor just past the first
\* '"' that is not the second character of an escape pair (a backslash followed
\* by a backslash or a '"'), and false at end of input iff there is none.
C10_DoubleQuotedScan ==
    (pc = "done" /\ chars[1] = DQUOTE) =>
        IF BareQuotes # {}
        THEN result = TRUE /\ pos = Min(BareQuotes)
        ELSE result = FALSE /\ pos = Len(chars)

\* an escaped quote and a backslash that escapes nothing before the closing quote
C10_Witness ==
    /\ pc = "done" /\ chars[1] = DQUOTE
    /\ result = TRUE
    /\ \E q \in 2..Len(chars) : chars[q] = DQUOTE /\ BackslashesBefore(q) = 1
    /\ \E q \in 2..Len(chars) : chars[q] = BACKSLASH /\ CharAt(q + 1) = "a"
    /\ pos = Len(chars)

---------------------------------------------------------------------------
(* What a single-quoted text says, read off chars without the cursor *)

\* index of the first character after the opening quote
SqsStart == IF caller = "top" THEN 3 ELSE 2
\* the one-symbol literal: a character that is no backslash, then a quote
OneSymbolText == CharAt(SqsStart + 1) = SQUOTE /\ CharAt(SqsStart) # BACKSLASH
\* the backslashes right before index q, after the opening quote
SqsBackslashesBefore(q) ==
    Max({n \in 0..(q - SqsStart) : \A j \in 1..n : chars[q - j] = BACKSLASH}
        \cup {0})
SqsReturned == pc = "sqs_ret"

\* C11: when single_quoted_string returns false the cursor is at end of input,
\* on a '/', or on a newline not followed by a quote, the stop character
\* unconsumed; when it returns true the last consumed character is an
\* unescaped quote; outside the one-symbol path no '/' is consumed unless a
\* backslash precedes it.
C11_SingleQuotedStop ==
    /\ (SqsReturned /\ ~terminated) =>
          \/ pos = Len(chars)
          \/ CharAt(pos + 1) = SLASH
          \/ CharAt(pos + 1) = NEWLINE /\ CharAt(pos + 2) # SQUOTE
    /\ (SqsReturned /\ terminated) =>
          /\ pos >= SqsStart
          /\ chars[pos] = SQUOTE
          /\ SqsBackslashesBefore(pos) % 2 = 0
    /\ (pc \in {"sqs_loop", "sqs_ret"} /\ ~OneSymbolText) =>
          \A i \in SqsStart..pos : chars[i] = SLASH => chars[i - 1] = BACKSLASH

\* \/ then a newline: the escaped slash is consumed, the scan stops on the
\* newline
C11_Witness ==
    /\ SqsReturned /\ ~terminated
    /\ CharAt(pos + 1) = NEWLINE
    /\ pos < Len(chars)
    /\ \E i \in SqsStart..pos : chars[i] = SLASH

---------------------------------------------------------------------------
(* All scanners together *)

AllInit == RawInit \/ NumInit \/ QuoteInit \/ DqInit

AllNext == RawNext \/ NumNext \/ QuoteNext \/ DqNext

SpecAll == AllInit /\ [][AllNext]_vars

\* a scanner runs to completion: the step it can take is taken
SpecAllFair == SpecAll /\ WF_vars(AllNext)

\* the positions inside the scan loops
LoopPcs == {"raw_count", "raw_loop", "sqs_loop", "dqs_loop"}
LoopProgress == pc \in LoopPcs => (pos' > pos \/ pc' # pc)

\* C12: every scanner returns on every text, and every iteration of a scan
\* loop consumes at least one character or leaves the loop.
C12_Termination == <>(pc = "done") /\ [][LoopProgress]_vars

\* a backslash at the very end of a single-quoted text, consumed by the loop
C12_Witness ==
    /\ pc = "done" /\ caller = "top"
    /\ result = FALSE
    /\ pos = Len(chars)
    /\ chars[Len(chars)] = BACKSLASH
    /\ SqsBackslashesBefore(Len(chars) + 1) % 2 = 1

---------------------------------------------------------------------------
(* Number: progress and the malformed prefix *)

C14_MalformedPrefixStops ==
    NumReturned =>
        /\ EmptyRadix =>
              /\ result = IntKind(RadixBase, TRUE)
              /\ pos = 2 + RunLen(3, {"_"})
        /\ (result.kind = "Int" /\ result.empty_int) =>
              /\ HasRadix
              /\ \A i \in 3..pos : chars[i] = "_"

\* 0x.8 : the fraction after the empty prefix stays unconsumed
C14_Witness ==
    /\ NumReturned /\ EmptyRadix
    /\ result.kind = "Int" /\ result.empty_int
    /\ CharAt(pos + 1) = "."
    /\ CharAt(pos + 2) \in DecimalDigits

---------------------------------------------------------------------------
(* Raw strings: the earliest closing run and the NoTerminator report *)

\* the '"' of the body that come before the first closing one
FailedCandidates ==
    {q \in BodyQuotes : Closers = {} \/ q < Min(Closers)}

\* C15: with n opening '#', the scan succeeds at the first '"' of the body
\* directly followed by at least n '#' and consumes that '"' plus n '#';
\* every earlier '"' is body content with its hashes and every '"' of the
\* body is a candidate; with n = 0 the first '"' of the body closes.
C15_RawEarliestClose ==
    (RawReturned /\ HasStarter) =>
        /\ Closers # {} =>
              /\ unvalidated = <<OpenHashes, NoneV>>
              /\ pos = Min(Closers) + OpenHashes
              /\ \A q \in FailedCandidates : HashRun(q + 1) < OpenHashes
        /\ unvalidated[2] = NoneV =>
              /\ pos - OpenHashes \in Closers
              /\ \A q \in BodyQuotes : q < pos - OpenHashes => q \notin Closers
        /\ (OpenHashes = 0 /\ BodyQuotes # {}) =>
              /\ unvalidated = <<0, NoneV>>
              /\ pos = Min(BodyQuotes)

\* ##"..."#"## : a '"' with too few '#' directly before the closing one
C15_Witness ==
    /\ RawReturned /\ HasStarter
    /\ unvalidated[2] = NoneV
    /\ OpenHashes >= 1
    /\ \E q \in FailedCandidates :
          /\ HashRun(q + 1) >= 1
          /\ q + HashRun(q + 1) + 1 = pos - OpenHashes

\* the error of the unvalidated scan, when it is NoTerminator
IsNoTerminator ==
    /\ RawReturned
    /\ unvalidated[2].tag = "Some"
    /\ unvalidated[2].val.kind = "NoTerminator"

\* the longest closing run after a '"' of the body, 0 without one
LongestRun == Max({HashRun(q + 1) : q \in BodyQuotes} \cup {0})

\* C17 as stated: in every NoTerminator result found < expected;
\* possible_terminator_offset is None exactly when found = 0; Some(k) has
\* k >= prefix_len + expected + 2 and the character at offset k of the token
\* (counted from 0) is '#'; with expected = 0 the body has no '"'.
C17_FoundBelowExpected ==
    IsNoTerminator =>
        LET e == unvalidated[2].val
            o == e.possible_terminator_offset
        IN /\ e.found < e.expected
           /\ (o = NoneV) <=> (e.found = 0)
           /\ o # NoneV =>
                 /\ o.val >= prefix_len + e.expected + 2
                 /\ CharAt(o.val + 1) = HASH
           /\ e.expected = 0 => BodyQuotes = {}

\* C17: in a NoTerminator result found < expected when expected > 0, and
\* found = expected = 0 when the string was opened without '#' (the body then
\* has no '"'); found is the longest closing run of the body;
\* possible_terminator_offset is None exactly when found = 0; Some(k) has
\* k >= prefix_len + expected + 2, and the character at offset k of the token
\* (counted from 0) is '#', the one before it '"'.
C17_NoTerminatorReport ==
    IsNoTerminator =>
        LET e == unvalidated[2].val
            o == e.possible_terminator_offset
        IN /\ e.expected = OpenHashes
           /\ e.expected > 0 => e.found < e.expected
           /\ e.expected = 0 => (e.found = 0 /\ BodyQuotes = {})
           /\ e.found = LongestRun
           /\ (o = NoneV) <=> (e.found = 0)
           /\ o # NoneV =>
                 /\ o.val >= prefix_len + e.expected + 2
                 /\ CharAt(o.val + 1) = HASH
                 /\ CharAt(o.val) = DQUOTE

\* ##"..."#"# : two candidates with the same run, the first one reported
C17_Witness ==
    /\ IsNoTerminator
    /\ unvalidated[2].val.found = 1
    /\ \E q \in BodyQuotes :
          /\ HashRun(q + 1) = 1
          /\ q > unvalidated[2].val.possible_terminator_offset.val

---------------------------------------------------------------------------
(* Single-quoted literals: the backslash pair and the suffix *)

\* C16: in the loop a backslash and the character after it are consumed
\* together: the loop head is never between the two, a quote, '/' or newline
\* right after a backslash neither terminates nor stops the scan, and the
\* one-symbol path is not taken when the first character is a backslash
\* (\' then end of input is unterminated, \'' ends at the second quote).
C16_BackslashPair ==
    /\ pc = "sqs_loop" =>
          (SqsBackslashesBefore(pos + 1) % 2 = 0 \/ pos = Len(chars))
    /\ (SqsReturned /\ ~terminated /\ pos < Len(chars)) =>
          /\ chars[pos + 1] \in {SLASH, NEWLINE}
          /\ SqsBackslashesBefore(pos + 1) % 2 = 0
    /\ (SqsReturned /\ terminated /\ ~OneSymbolText) =>
          /\ chars[pos] = SQUOTE
          /\ SqsBackslashesBefore(pos) % 2 = 0
    /\ (SqsReturned /\ CharAt(SqsStart) = BACKSLASH /\ CharAt(SqsStart + 1) = SQUOTE) =>
          /\ pos >= SqsStart + 1
          /\ Len(chars) = SqsStart + 1 => (~terminated /\ pos = Len(chars))
          /\ CharAt(SqsStart + 2) = SQUOTE => (terminated /\ pos = SqsStart + 2)
          /\ terminated => pos >= SqsStart + 2

\* \'' : the escaped quote is skipped, the second quote terminates
C16_Witness ==
    /\ SqsReturned /\ terminated
    /\ CharAt(SqsStart) = BACKSLASH
    /\ CharAt(SqsStart + 1) = SQUOTE
    /\ pos = SqsStart + 2

---------------------------------------------------------------------------
(* Number: the exponent marker after a hexadecimal prefix *)

\* C18: after 0x and at least one digit, e and E belong to the main digit run,
\* so a Float with base Hexadecimal has taken the '.' branch, and a text such
\* as 0x1e8 is Int{Hexadecimal, empty_int: false} with the run consumed; for
\* Binary, Octal and Decimal an e or E right after the main run gives a Float
\* with that base.
C18_HexExponent ==
    NumReturned =>
        /\ (result.kind = "Float" /\ result.base = "Hexadecimal") =>
              \E i \in 4..pos :
                 /\ chars[i] = "."
                 /\ \A j \in 3..(i - 1) : chars[j] \in HexadecimalDigits \cup {"_"}
        /\ (RadixBase = "Hexadecimal" /\ ~EmptyRadix /\ CharAt(MainEnd + 1) # ".") =>
              /\ result = IntKind("Hexadecimal", FALSE)
              /\ pos = MainEnd
              /\ \A i \in (pos + 1)..Len(chars) :
                    chars[i] \in {"e", "E"} => \E j \in (pos + 1)..(i - 1) :
                                                  chars[j] \notin HexadecimalDigits \cup {"_"}
        /\ (RadixBase # "Hexadecimal" /\ ~EmptyRadix /\ CharAt(MainEnd + 1) \in {"e", "E"}) =>
              /\ result.kind = "Float"
              /\ result.base = RadixBase
              /\ pos >= MainEnd + 1

\* 0x1e8 : the e between two digits is a digit of the Int
C18_Witness ==
    /\ NumReturned
    /\ result = IntKind("Hexadecimal", FALSE)
    /\ pos = Len(chars)
    /\ \E i \in 4..(pos - 1) :
          /\ chars[i] \in {"e", "E"}
          /\ chars[i - 1] \in DecimalDigits
          /\ chars[i + 1] \in DecimalDigits

\* the end of the identifier that starts right after index s, s without one
SuffixEnd(s) ==
    IF CharAt(s + 1) \in IdStart THEN s + RunLen(s + 1, IdContinue) ELSE s

\* C19: on a Literal result of lifetime_or_char suffix_start counts the
\* characters up to and including the closing quote when the literal is
\* terminated, and up to the stop position when it is not; the cursor is
\* beyond suffix_start, by the suffix eat_literal_suffix consumed, only after
\* single_quoted_string returned true, never on an unterminated literal and
\* never on the literal that looked like a lifetime ('abc').
C19_SuffixStart ==
    (LocReturned /\ result.kind = "Literal") =>
        LET s == result.suffix_start
            t == result.lit.terminated
        IN /\ s >= 1 /\ s <= pos
           /\ t => (s >= 2 /\ chars[s] = SQUOTE)
           /\ ~t => /\ pos = s
                    /\ s = Len(chars) \/ chars[s + 1] \in {SLASH, NEWLINE}
           /\ LooksLikeLifetime => (t /\ pos = s /\ s = CandidateEnd)
           /\ (t /\ ~LooksLikeLifetime) => pos = SuffixEnd(s)
           /\ pos > s => (t /\ ~LooksLikeLifetime /\ caller = "lifetime_or_char")

\* '\''a : the suffix after the closing quote of the loop is consumed
C19_Witness ==
    /\ LocReturned /\ result.kind = "Literal"
    /\ result.lit.terminated
    /\ chars[2] = BACKSLASH
    /\ pos > result.suffix_start

=============================================================================
